---------------------------- MODULE Spec2Model ----------------------------
(***************************************************************************)
(* Model of vue-template-diagnostic's type layer:                          *)
(*   - TypeScriptTypeRepository (getTypeByKind, ensureLoadBuiltInTypes)    *)
(*     and the test stub typeRepository;                                   *)
(*   - TypeScriptType (kind, members, callSignatures);                     *)
(*   - the expression checker (checkExpression).                           *)
(***************************************************************************)
EXTENDS Integers, Sequences, FiniteSets, TLC

VARIABLES
    \* --- TypeScriptTypeRepository -------------------------------------
    fixture,        \* declared type texts of the fixture's variable declarations, in tree order
    cached,         \* TypeScriptTypeRepository.cached (the one-shot flag)
    cache,          \* TypeScriptTypeRepository.cache  (Map<TypeKind, Type>)
    loadCount,      \* history: how many times the loading body has executed
    firstLoad,      \* history: the cache as the first execution of the loading body left it
    written,        \* history: per visited declaration, the kinds it wrote
    lastCall,       \* history: the last getTypeByKind call, its result and the state before it
    \* --- TypeScriptType.kind -------------------------------------------
    tsFlags,        \* this.tsType.flags, as the set of the flag bits that are set
    kindRead,       \* history: what the last read of kind returned
    \* --- TypeScriptType.members / callSignatures ------------------------
    hostProps,      \* what tsType.getProperties() returns (a sequence of host symbols)
    hostSigs,       \* what tsType.getCallSignatures() returns (per signature, its parameter count)
    membersField,   \* TypeScriptType._members
    callSignaturesField, \* TypeScriptType._callSignatures
    nextRef,        \* the next fresh object reference
    getPropertiesCalls,     \* history: calls of tsType.getProperties()
    getCallSignaturesCalls, \* history: calls of tsType.getCallSignatures()
    firstMembers,   \* history: what the first read of members returned
    firstCallSignatures, \* history: what the first read of callSignatures returned
    lastRead,       \* history: the last property read and what it returned
    reads,          \* history: how many times each of the two properties was read
    \* --- checkExpression -------------------------------------------------
    expression,     \* the expression root handed to checkExpression
    scope,          \* the symbol table handed to checkExpression
    diagnostics     \* what checkExpression returned

repoVars == <<fixture, cached, cache, loadCount, firstLoad, written, lastCall>>
kindVars == <<tsFlags, kindRead>>
memoVars == <<hostProps, hostSigs, membersField, callSignaturesField, nextRef,
              getPropertiesCalls, getCallSignaturesCalls, firstMembers,
              firstCallSignatures, lastRead, reads>>
checkVars == <<expression, scope, diagnostics>>
vars == <<repoVars, kindVars, memoVars, checkVars>>

(***************************************************************************)
(* Bounds                                                                  *)
(***************************************************************************)
MaxDecls == 3
MaxProps == 2
MaxSigs == 2
MaxParams == 1
MaxReads == 3
MaxOperands == 3

(***************************************************************************)
(* TypeKind and Type values                                                *)
(***************************************************************************)
TypeKinds ==
    {"Any", "Boolean", "String", "Number", "Symbol", "Undefined", "Null",
     "Object", "Function", "Other"}

ScalarKinds == {"String", "Number", "Boolean", "Symbol"}

\* A Type value: where it comes from, the host type it wraps, its anchor node.
MkType(src, tsType, node) == [src |-> src, tsType |-> tsType, node |-> node]

Absent == MkType("absent", "", 0)          \* Map.get of a missing key: undefined

anyType == MkType("singleton", "any", 0)
nullType == MkType("singleton", "null", 0)
undefinedType == MkType("singleton", "undefined", 0)

\* new TypeScriptType(checker.getTypeAtLocation(prop), prop, this.context):
\* the host type of a declaration annotated `text` is the type `text`.
TypeScriptTypeAt(text, node) == MkType("host", text, node)

Return(t) == [tag |-> "return", type |-> t, error |-> ""]
Throw(e) == [tag |-> "throw", type |-> Absent, error |-> e]

EmptyCache == [k \in ScalarKinds |-> Absent]

(***************************************************************************)
(* ensureLoadBuiltInTypes: the fixture walk                                *)
(***************************************************************************)
\* Declared type texts a fixture declaration can carry.  "none" is a
\* declaration without a type annotation: prop.type is undefined and
\* prop.type!.getText(source) throws a TypeError.
PrimitiveTexts == {"string", "number", "boolean", "symbol"}
TypeTexts == PrimitiveTexts \cup {"object", "none"}

\* The case labels of the inner switch, in source order, and the kind each
\* case body writes.
CaseLabels == <<"string", "number", "boolean", "symbol">>
CaseKinds == <<"String", "Number", "Boolean", "Symbol">>

\* The index of the case label equal to text, 0 when none is (default).
MatchedCase(text) ==
    IF \E i \in DOMAIN CaseLabels : CaseLabels[i] = text
    THEN CHOOSE i \in DOMAIN CaseLabels : CaseLabels[i] = text
    ELSE 0

\* The kinds written by the inner switch for one declaration: no case body
\* ends in a break, so control runs from the matched case through every
\* later case body.
KindsSetBy(text) ==
    LET m == MatchedCase(text)
    IN IF m = 0 THEN {}
       ELSE {CaseKinds[j] : j \in m..Len(CaseLabels)}

\* search(node) for one VariableDeclaration node.
SearchDeclaration(c, text, node) ==
    [k \in ScalarKinds |->
        IF k \in KindsSetBy(text) THEN TypeScriptTypeAt(text, node) ELSE c[k]]

\* ts.forEachChild(source, search) over the declarations from index i on.
\* Result: the cache, the kinds each visited declaration wrote, and whether
\* the walk threw.
RECURSIVE Walk(_, _, _, _)
Walk(decls, i, c, w) ==
    IF i > Len(decls) THEN [cache |-> c, written |-> w, threw |-> FALSE]
    ELSE IF decls[i] = "none" THEN [cache |-> c, written |-> w, threw |-> TRUE]
    ELSE Walk(decls, i + 1, SearchDeclaration(c, decls[i], i),
              Append(w, KindsSetBy(decls[i])))

\* Mutant: the one-shot flag is set after the walk instead of before it, so a
\* walk that throws leaves the flag unset.
ensureLoadBuiltInTypes_FlagLast(isCached, c, decls) ==
    IF isCached
    THEN [cached |-> TRUE, cache |-> c, ran |-> FALSE, written |-> <<>>, threw |-> FALSE]
    ELSE LET r == Walk(decls, 1, c, <<>>)
         IN [cached |-> ~r.threw, cache |-> r.cache, ran |-> TRUE,
             written |-> r.written, threw |-> r.threw]

\* ensureLoadBuiltInTypes(): the state it leaves and whether it threw.
ensureLoadBuiltInTypes(isCached, c, decls) ==
    IF isCached
    THEN [cached |-> TRUE, cache |-> c, ran |-> FALSE, written |-> <<>>, threw |-> FALSE]
    ELSE LET r == Walk(decls, 1, c, <<>>)
         IN [cached |-> TRUE, cache |-> r.cache, ran |-> TRUE,
             written |-> r.written, threw |-> r.threw]

(***************************************************************************)
(* TypeScriptTypeRepository.getTypeByKind                                  *)
(***************************************************************************)
\* Mutant: the TypeKind.Other assertion is missing, so Other reaches the
\* switch's default after built-in loading.
getTypeByKind_NoOtherAssert(kind, isCached, c, decls) ==
    LET same(res) == [cached |-> isCached, cache |-> c, ran |-> FALSE,
                      written |-> <<>>, result |-> res]
    IN IF kind = "Any" THEN same(Return(anyType))
       ELSE IF kind = "Null" THEN same(Return(nullType))
       ELSE IF kind = "Undefined" THEN same(Return(undefinedType))
       ELSE LET l == ensureLoadBuiltInTypes(isCached, c, decls)
                after(res) == [cached |-> l.cached, cache |-> l.cache, ran |-> l.ran,
                               written |-> l.written, result |-> res]
            IN IF l.threw THEN after(Throw("TypeError"))
               ELSE IF kind \notin ScalarKinds THEN after(Throw("Error"))
               ELSE IF l.cache[kind] = Absent THEN after(Throw("AssertionError"))
               ELSE after(Return(l.cache[kind]))

\* Mutant: built-in loading is ensured before the singleton returns.
getTypeByKind_EagerLoad(kind, isCached, c, decls) ==
    LET same(res) == [cached |-> isCached, cache |-> c, ran |-> FALSE,
                      written |-> <<>>, result |-> res]
    IN IF kind = "Other" THEN same(Throw("AssertionError"))
       ELSE LET l == ensureLoadBuiltInTypes(isCached, c, decls)
                after(res) == [cached |-> l.cached, cache |-> l.cache, ran |-> l.ran,
                               written |-> l.written, result |-> res]
            IN IF l.threw THEN after(Throw("TypeError"))
               ELSE IF kind = "Any" THEN after(Return(anyType))
               ELSE IF kind = "Null" THEN after(Return(nullType))
               ELSE IF kind = "Undefined" THEN after(Return(undefinedType))
               ELSE IF kind \notin ScalarKinds THEN after(Throw("Error"))
               ELSE IF l.cache[kind] = Absent THEN after(Throw("AssertionError"))
               ELSE after(Return(l.cache[kind]))

\* Mutant: the final assert(res) is missing, so an absent entry is returned.
getTypeByKind_NoResAssert(kind, isCached, c, decls) ==
    LET same(res) == [cached |-> isCached, cache |-> c, ran |-> FALSE,
                      written |-> <<>>, result |-> res]
    IN IF kind = "Other" THEN same(Throw("AssertionError"))
       ELSE IF kind = "Any" THEN same(Return(anyType))
       ELSE IF kind = "Null" THEN same(Return(nullType))
       ELSE IF kind = "Undefined" THEN same(Return(undefinedType))
       ELSE LET l == ensureLoadBuiltInTypes(isCached, c, decls)
                after(res) == [cached |-> l.cached, cache |-> l.cache, ran |-> l.ran,
                               written |-> l.written, result |-> res]
            IN IF l.threw THEN after(Throw("TypeError"))
               ELSE IF kind \notin ScalarKinds THEN after(Throw("Error"))
               ELSE after(Return(l.cache[kind]))

\* The state the call leaves and its result.
getTypeByKind(kind, isCached, c, decls) ==
    LET same(res) == [cached |-> isCached, cache |-> c, ran |-> FALSE,
                      written |-> <<>>, result |-> res]
    IN IF kind = "Other" THEN same(Throw("AssertionError"))
       ELSE IF kind = "Any" THEN same(Return(anyType))
       ELSE IF kind = "Null" THEN same(Return(nullType))
       ELSE IF kind = "Undefined" THEN same(Return(undefinedType))
       ELSE LET l == ensureLoadBuiltInTypes(isCached, c, decls)
                after(res) == [cached |-> l.cached, cache |-> l.cache, ran |-> l.ran,
                               written |-> l.written, result |-> res]
            IN IF l.threw THEN after(Throw("TypeError"))
               ELSE IF kind \notin ScalarKinds THEN after(Throw("Error"))
               ELSE IF l.cache[kind] = Absent THEN after(Throw("AssertionError"))
               ELSE after(Return(l.cache[kind]))

(***************************************************************************)
(* The test stub typeRepository                                            *)
(***************************************************************************)
stubGetTypeByKind(kind) ==
    CASE kind = "Number" -> Return(MkType("stub", "number", 0))
      [] kind = "String" -> Return(MkType("stub", "string", 0))
      [] kind = "Boolean" -> Return(MkType("stub", "boolean", 0))
      [] kind = "Null" -> Return(nullType)
      [] kind = "Undefined" -> Return(undefinedType)
      [] kind = "Any" -> Return(anyType)
      [] OTHER -> Throw("Error")

(***************************************************************************)
(* Repository specification                                                *)
(***************************************************************************)
RECURSIVE SeqsUpTo(_, _)
SeqsUpTo(S, n) ==
    IF n = 0 THEN {<<>>}
    ELSE LET shorter == SeqsUpTo(S, n - 1)
         IN shorter \cup {Append(s, x) : s \in shorter, x \in S}

\* Fixtures declaring exactly one variable per primitive type text, in any order.
CanonicalFixtures ==
    {f \in [1..4 -> PrimitiveTexts] : \A t \in PrimitiveTexts : \E i \in 1..4 : f[i] = t}

Fixtures == SeqsUpTo(TypeTexts, MaxDecls) \cup CanonicalFixtures

NoCall == [repo |-> "none", kind |-> "Any", result |-> Return(Absent),
           cachedBefore |-> FALSE, cacheBefore |-> EmptyCache, loadsBefore |-> 0]

RepoInit ==
    /\ fixture \in Fixtures
    /\ cached = FALSE
    /\ cache = EmptyCache
    /\ loadCount = 0
    /\ firstLoad = EmptyCache
    /\ written = <<>>
    /\ lastCall = NoCall

\* repository.getTypeByKind(kind) on the host-backed repository.
GetTypeByKind(kind) ==
    LET r == getTypeByKind(kind, cached, cache, fixture)
    IN /\ cached' = r.cached
       /\ cache' = r.cache
       /\ loadCount' = IF r.ran THEN loadCount + 1 ELSE loadCount
       /\ firstLoad' = IF r.ran /\ loadCount = 0 THEN r.cache ELSE firstLoad
       /\ written' = IF r.ran THEN r.written ELSE written
       /\ lastCall' = [repo |-> "host", kind |-> kind, result |-> r.result,
                       cachedBefore |-> cached, cacheBefore |-> cache,
                       loadsBefore |-> loadCount]
       /\ UNCHANGED fixture

\* typeRepository.getTypeByKind(kind) on the test stub.
StubGetTypeByKind(kind) ==
    /\ lastCall' = [repo |-> "stub", kind |-> kind, result |-> stubGetTypeByKind(kind),
                    cachedBefore |-> cached, cacheBefore |-> cache,
                       loadsBefore |-> loadCount]
    /\ UNCHANGED <<fixture, cached, cache, loadCount, firstLoad, written>>


(***************************************************************************)
(* TypeScriptType.kind                                                     *)
(***************************************************************************)
\* The host's type-flag bits.  A flags word is modelled as the set of its
\* set bits: every name below is one distinct bit, so `flags & mask` is
\* non-zero exactly when the two sets share an element.
TypeFlags ==
    {"Any", "String", "Number", "Boolean", "Enum", "StringLiteral",
     "NumberLiteral", "BooleanLiteral", "ESSymbol", "Void", "Undefined",
     "Null", "Object", "Index"}

\* The host's composite masks (ts.TypeFlags.BooleanLike, StringLike, NumberLike).
BooleanLike == {"Boolean", "BooleanLiteral"}
StringLike == {"String", "StringLiteral", "Index"}
NumberLike == {"Number", "NumberLiteral", "Enum"}

\* flags & mask, as a condition.
HasAny(flags, mask) == flags \cap mask # {}

\* Mutant: the string-like test is made before the boolean-like test.
kind_StringBeforeBoolean(flags) ==
    IF HasAny(flags, {"Any"}) THEN "Any"
    ELSE IF HasAny(flags, {"String"} \cup StringLike \cup {"StringLiteral"}) THEN "String"
    ELSE IF HasAny(flags, {"Boolean"} \cup BooleanLike \cup {"BooleanLiteral"}) THEN "Boolean"
    ELSE IF HasAny(flags, {"Number"} \cup NumberLike) THEN "Number"
    ELSE IF HasAny(flags, {"ESSymbol"}) THEN "Symbol"
    ELSE IF HasAny(flags, {"Undefined"}) THEN "Undefined"
    ELSE IF HasAny(flags, {"Null"}) THEN "Null"
    ELSE "Other"

\* get kind(): the if / else-if chain, in source order.
kind(flags) ==
    IF HasAny(flags, {"Any"}) THEN "Any"
    ELSE IF HasAny(flags, {"Boolean"} \cup BooleanLike \cup {"BooleanLiteral"}) THEN "Boolean"
    ELSE IF HasAny(flags, {"String"} \cup StringLike \cup {"StringLiteral"}) THEN "String"
    ELSE IF HasAny(flags, {"Number"} \cup NumberLike) THEN "Number"
    ELSE IF HasAny(flags, {"ESSymbol"}) THEN "Symbol"
    ELSE IF HasAny(flags, {"Undefined"}) THEN "Undefined"
    ELSE IF HasAny(flags, {"Null"}) THEN "Null"
    ELSE "Other"

KindInit ==
    /\ tsFlags \in SUBSET TypeFlags
    /\ kindRead = "none"

\* A read of type.kind.
ReadKind ==
    /\ kindRead' = kind(tsFlags)
    /\ UNCHANGED tsFlags

(***************************************************************************)
(* TypeScriptType.members and TypeScriptType.callSignatures                *)
(***************************************************************************)
\* JavaScript values held by the two private fields: undefined, null, or a
\* reference to an object (a SimpleSymbolTable, an array) with its items.
UndefinedValue == [tag |-> "undefined", ref |-> 0, items |-> <<>>]
NullValue == [tag |-> "null", ref |-> 0, items |-> <<>>]
ObjectValue(ref, items) == [tag |-> "object", ref |-> ref, items |-> items]
NotRead == [tag |-> "notread", ref |-> 0, items |-> <<>>]

\* !v : only undefined and null are falsy among these values; an object,
\* an empty array included, is truthy.
Not(v) == v.tag \in {"undefined", "null"}

\* get members(): the fields it leaves and the value it returns.
membersGet(field, props, ref, calls) ==
    IF Not(field)
    THEN LET symbols == [i \in DOMAIN props |-> props[i]]
             table == ObjectValue(ref, symbols)
         IN [field |-> table, ref |-> ref + 1, calls |-> calls + 1, value |-> table]
    ELSE [field |-> field, ref |-> ref, calls |-> calls, value |-> field]

\* Mutant: an empty signature array counts as not yet computed (the guard
\* tests the array's length), so it is computed again on every read.
callSignaturesGet_EmptyIsUnset(field, sigs, ref, calls) ==
    IF Not(field) \/ Len(field.items) = 0
    THEN LET mapped == [i \in DOMAIN sigs |-> [argTypes |-> sigs[i], returnType |-> i]]
             array == ObjectValue(ref, mapped)
         IN [field |-> array, ref |-> ref + 1, calls |-> calls + 1, value |-> array]
    ELSE [field |-> field, ref |-> ref, calls |-> calls, value |-> field]

\* get callSignatures(): the fields it leaves and the value it returns.
callSignaturesGet(field, sigs, ref, calls) ==
    IF Not(field)
    THEN LET mapped == [i \in DOMAIN sigs |-> [argTypes |-> sigs[i], returnType |-> i]]
             array == ObjectValue(ref, mapped)
         IN [field |-> array, ref |-> ref + 1, calls |-> calls + 1, value |-> array]
    ELSE [field |-> field, ref |-> ref, calls |-> calls, value |-> field]

MemoInit ==
    /\ hostProps \in {[i \in 1..n |-> i] : n \in 0..MaxProps}
    /\ hostSigs \in SeqsUpTo(0..MaxParams, MaxSigs)
    /\ membersField = UndefinedValue
    /\ callSignaturesField = NullValue
    /\ nextRef = 1
    /\ getPropertiesCalls = 0
    /\ getCallSignaturesCalls = 0
    /\ firstMembers = NotRead
    /\ firstCallSignatures = NotRead
    /\ lastRead = [prop |-> "none", value |-> NotRead]
    /\ reads = [p \in {"members", "callSignatures"} |-> 0]

\* A read of type.members.
ReadMembers ==
    /\ reads["members"] < MaxReads
    /\ LET r == membersGet(membersField, hostProps, nextRef, getPropertiesCalls)
       IN /\ membersField' = r.field
          /\ nextRef' = r.ref
          /\ getPropertiesCalls' = r.calls
          /\ firstMembers' = IF firstMembers = NotRead THEN r.value ELSE firstMembers
          /\ lastRead' = [prop |-> "members", value |-> r.value]
    /\ reads' = [reads EXCEPT !["members"] = @ + 1]
    /\ UNCHANGED <<hostProps, hostSigs, callSignaturesField, getCallSignaturesCalls,
                   firstCallSignatures>>

\* A read of type.callSignatures.
ReadCallSignatures ==
    /\ reads["callSignatures"] < MaxReads
    /\ LET r == callSignaturesGet(callSignaturesField, hostSigs, nextRef,
                                  getCallSignaturesCalls)
       IN /\ callSignaturesField' = r.field
          /\ nextRef' = r.ref
          /\ getCallSignaturesCalls' = r.calls
          /\ firstCallSignatures' =
                IF firstCallSignatures = NotRead THEN r.value ELSE firstCallSignatures
          /\ lastRead' = [prop |-> "callSignatures", value |-> r.value]
    /\ reads' = [reads EXCEPT !["callSignatures"] = @ + 1]
    /\ UNCHANGED <<hostProps, hostSigs, membersField, getPropertiesCalls, firstMembers>>

(***************************************************************************)
(* The checker engine: checkExpression(expressionRoot, scope)              *)
(***************************************************************************)
\* Types as the checker sees them: a display name and a kind.
CheckerType(name, k) == [name |-> name, kind |-> k]
checkerAny == CheckerType("any", "Any")
checkerNumber == CheckerType("number", "Number")
checkerString == CheckerType("string", "String")
checkerBoolean == CheckerType("boolean", "Boolean")

\* AST nodes.  A literal carries its token text, the length of that text
\* and its type; an identifier its name; a binary expression its operator
\* and operands.  Source offsets follow from the text: operands and
\* operator are separated by single spaces.
Literal(text, len, t) == [node |-> "Literal", text |-> text, len |-> len, type |-> t]
Identifier(name) == [node |-> "Identifier", text |-> name, len |-> 3]
Binary(op, l, r) == [node |-> "Binary", op |-> op, left |-> l, right |-> r]

Literals ==
    { Literal("123", 3, checkerNumber),
      Literal("\"1\"", 3, checkerString),
      Literal("true", 4, checkerBoolean),
      Literal("null", 4, CheckerType("null", "Null")) }

Names == {"foo", "bar"}
Operands == Literals \cup {Identifier(n) : n \in Names}

ArithmeticOperators == {"*", "/", "-"}
Operators == {"+", "-", "instanceof", "in"}

OperatorLen(op) ==
    CASE op = "===" -> 3
      [] op = "instanceof" -> 10
      [] op = "in" -> 2
      [] OTHER -> 1

RECURSIVE Width(_)
Width(e) ==
    IF e.node = "Binary"
    THEN Width(e.left) + 1 + OperatorLen(e.op) + 1 + Width(e.right)
    ELSE e.len

\* SymbolTable lookup by name: the bound type, or the absent signal.
Unbound == CheckerType("", "Unbound")
lookup(table, name) == table[name]

Diagnostic(message, start, end) == [message |-> message, start |-> start, end |-> end]

NotDefinedMessage(name) == <<"'", name, "' is not defined">>
PlusMessage(l, r) ==
    <<"The binary operator '+' cannot be applied to type '", l.name, "' and '", r.name, "'">>
ArithmeticMessage(side, op) ==
    <<"The ", side, "-hand side of a binary operator '", op,
      "' must be of type 'number' or 'any'">>
InstanceofMessage(side) ==
    <<"The ", side, "-hand side of 'instanceof' must be of type 'any' or '",
      IF side = "left" THEN "object" ELSE "Function", "'">>
InMessage(side) ==
    <<"The ", side, "-hand side of a 'in' operator must be of type ",
      IF side = "left" THEN "'any', 'number', 'string' or 'symbol'"
      ELSE "'any' or 'object'">>

\* Mutant: an unresolved identifier is given the catch-all kind Other
\* instead of Any.
identifierType_UnresolvedIsOther(table, name) ==
    IF lookup(table, name) = Unbound
    THEN CheckerType(name, "Other")
    ELSE lookup(table, name)

\* The type an identifier operand has in the operator rules: its binding's
\* type, Any when it is unresolved.
identifierType(table, name) ==
    IF lookup(table, name) = Unbound THEN checkerAny ELSE lookup(table, name)

\* Mutant: '+' accepts a number on one side only.
plusIsValid_EitherNumber(l, r) ==
    \/ l.kind = "Number" \/ r.kind = "Number"
    \/ l.kind = "String" \/ r.kind = "String"
    \/ l.kind = "Any" \/ r.kind = "Any"

\* The '+' rule.
plusIsValid(l, r) ==
    \/ l.kind = "Number" /\ r.kind = "Number"
    \/ l.kind = "String" \/ r.kind = "String"
    \/ l.kind = "Any" \/ r.kind = "Any"

\* The diagnostics of one binary operator, given its operands' types and
\* spans: ls..le the left operand, rs..re the right one.
operatorDiagnostics(op, l, r, ls, le, rs, re) ==
    LET when(cond, d) == IF cond THEN <<d>> ELSE <<>>
    IN CASE op = "+" ->
              when(~plusIsValid(l, r), Diagnostic(PlusMessage(l, r), ls, re))
         [] op \in ArithmeticOperators ->
              when(l.kind \notin {"Number", "Any"},
                   Diagnostic(ArithmeticMessage("left", op), ls, le))
              \o when(r.kind \notin {"Number", "Any"},
                      Diagnostic(ArithmeticMessage("right", op), rs, re))
         [] op = "instanceof" ->
              when(l.kind \notin {"Object", "Any"},
                   Diagnostic(InstanceofMessage("left"), ls, le))
              \o when(r.kind \notin {"Function", "Any"},
                      Diagnostic(InstanceofMessage("right"), rs, re))
         [] op = "in" ->
              when(l.kind \notin {"Number", "String", "Symbol", "Any"},
                   Diagnostic(InMessage("left"), ls, le))
              \o when(r.kind \notin {"Object", "Any"},
                      Diagnostic(InMessage("right"), rs, re))
         [] OTHER -> <<>>

\* The type of a binary expression's value.
resultType(op, l, r) ==
    CASE op = "+" ->
              IF l.kind = "String" \/ r.kind = "String" THEN checkerString
              ELSE IF l.kind = "Number" /\ r.kind = "Number" THEN checkerNumber
              ELSE checkerAny
      [] op \in ArithmeticOperators -> checkerNumber
      [] OTHER -> checkerBoolean

\* The walk: the type of the node at offset start and the diagnostics of
\* its subtree, the node's own first, then its left and its right operand's.
RECURSIVE checkNode(_, _, _)
checkNode(e, start, table) ==
    CASE e.node = "Literal" -> [type |-> e.type, diags |-> <<>>]
      [] e.node = "Identifier" ->
            [type |-> identifierType(table, e.text),
             diags |-> IF lookup(table, e.text) = Unbound
                       THEN <<Diagnostic(NotDefinedMessage(e.text), start, start + e.len)>>
                       ELSE <<>>]
      [] e.node = "Binary" ->
            LET le == start + Width(e.left)
                rs == le + 1 + OperatorLen(e.op) + 1
                re == rs + Width(e.right)
                l == checkNode(e.left, start, table)
                r == checkNode(e.right, rs, table)
            IN [type |-> resultType(e.op, l.type, r.type),
                diags |-> operatorDiagnostics(e.op, l.type, r.type, start, le, rs, re)
                          \o l.diags \o r.diags]

checkExpression(root, table) == checkNode(root, 0, table).diags

\* Left-nested chains of at most n operands.
RECURSIVE Chains(_)
Chains(n) ==
    IF n = 1 THEN Operands
    ELSE LET shorter == Chains(n - 1)
         IN shorter \cup {Binary(op, l, r) : op \in Operators, l \in shorter, r \in Operands}

Scopes ==
    { [n \in Names |-> Unbound],
      [n \in Names |-> IF n = "foo" THEN checkerNumber ELSE Unbound],
      [n \in Names |-> IF n = "foo" THEN CheckerType("Bar", "Object")
                       ELSE CheckerType("typeof Bar", "Function")] }

Unchecked == <<Diagnostic(<<"unchecked">>, 0, 0)>>

CheckInit ==
    /\ expression \in Chains(MaxOperands)
    /\ scope \in Scopes
    /\ diagnostics = Unchecked

CheckIdle ==
    /\ expression = Literal("123", 3, checkerNumber)
    /\ scope = [n \in Names |-> Unbound]
    /\ diagnostics = Unchecked

\* A call of checkExpression(expression, scope).
CheckExpression ==
    /\ diagnostics' = checkExpression(expression, scope)
    /\ UNCHANGED <<expression, scope>>

(***************************************************************************)
(* Specifications                                                          *)
(***************************************************************************)
\* Each specification runs one component; the other components' variables
\* stay at a fixed value.
RepoIdle ==
    /\ fixture = <<>>
    /\ cached = FALSE
    /\ cache = EmptyCache
    /\ loadCount = 0
    /\ firstLoad = EmptyCache
    /\ written = <<>>
    /\ lastCall = NoCall

KindIdle ==
    /\ tsFlags = {}
    /\ kindRead = "none"

MemoIdle ==
    /\ hostProps = <<>>
    /\ hostSigs = <<>>
    /\ membersField = UndefinedValue
    /\ callSignaturesField = NullValue
    /\ nextRef = 1
    /\ getPropertiesCalls = 0
    /\ getCallSignaturesCalls = 0
    /\ firstMembers = NotRead
    /\ firstCallSignatures = NotRead
    /\ lastRead = [prop |-> "none", value |-> NotRead]
    /\ reads = [p \in {"members", "callSignatures"} |-> 0]

\* The repository: any sequence of getTypeByKind calls on one host-backed
\* repository instance and on the stub.
Init == RepoInit /\ KindIdle /\ MemoIdle /\ CheckIdle

Next ==
    \/ \E k \in TypeKinds : GetTypeByKind(k) /\ UNCHANGED <<kindVars, memoVars, checkVars>>
    \/ \E k \in TypeKinds : StubGetTypeByKind(k) /\ UNCHANGED <<kindVars, memoVars, checkVars>>

Spec == Init /\ [][Next]_vars

\* TypeScriptType.kind over every combination of flag bits.
InitKind == KindInit /\ RepoIdle /\ MemoIdle /\ CheckIdle

NextKind == ReadKind /\ UNCHANGED <<repoVars, memoVars, checkVars>>

SpecKind == InitKind /\ [][NextKind]_vars

\* One TypeScriptType instance: any sequence of reads of members and
\* callSignatures.
InitMemo == MemoInit /\ RepoIdle /\ KindIdle /\ CheckIdle

NextMemo ==
    \/ ReadMembers /\ UNCHANGED <<repoVars, kindVars, checkVars>>
    \/ ReadCallSignatures /\ UNCHANGED <<repoVars, kindVars, checkVars>>

SpecMemo == InitMemo /\ [][NextMemo]_vars


\* The checker: one expression checked against one scope.
InitCheck == CheckInit /\ RepoIdle /\ KindIdle /\ MemoIdle

NextCheck == CheckExpression /\ UNCHANGED <<repoVars, kindVars, memoVars>>

SpecCheck == InitCheck /\ [][NextCheck]_vars

(***************************************************************************)
(* Properties of the repository                                            *)
(***************************************************************************)
HostCall == lastCall.repo = "host"
StubCall == lastCall.repo = "stub"
RepoUnchangedByLastCall ==
    /\ cached = lastCall.cachedBefore
    /\ cache = lastCall.cacheBefore
    /\ loadCount = lastCall.loadsBefore

\* C1: getTypeByKind(TypeKind.Other) never returns a Type, in the host-backed
\* repository and in the stub alike; in the host-backed repository it fails
\* on the assertion, before built-in loading, so the one-shot flag and the
\* cache are as they were before the call.
C1_OtherIsRejected ==
    /\ (HostCall /\ lastCall.kind = "Other") =>
            /\ lastCall.result = Throw("AssertionError")
            /\ RepoUnchangedByLastCall
    /\ (StubCall /\ lastCall.kind = "Other") => lastCall.result.tag = "throw"

\* C1 witness: Other was asked of a repository that had not loaded yet.
C1_Witness ==
    /\ HostCall /\ lastCall.kind = "Other"
    /\ ~lastCall.cachedBefore
    /\ lastCall.result.tag = "throw"

\* C2: the loading body runs at most once per repository instance; once it
\* has run the cache stays what that run left; every Type returned for a
\* scalar kind is the one that run cached, so two calls with the same scalar
\* kind return the same Type.
C2_LoadedOnce ==
    /\ loadCount <= 1
    /\ loadCount >= 1 => (cached /\ cache = firstLoad)
    /\ (HostCall /\ lastCall.kind \in ScalarKinds /\ lastCall.result.tag = "return")
            => lastCall.result.type = firstLoad[lastCall.kind]

\* C2 witness: a scalar kind was returned by a call made after loading.
C2_Witness ==
    /\ HostCall /\ lastCall.kind \in ScalarKinds
    /\ lastCall.cachedBefore
    /\ lastCall.result.tag = "return"
    /\ loadCount = 1

\* The kind a primitive type text names.
KindNamedBy(text) ==
    CASE text = "string" -> "String"
      [] text = "number" -> "Number"
      [] text = "boolean" -> "Boolean"
      [] text = "symbol" -> "Symbol"

\* C3: after loading over a fixture with one declaration per primitive type
\* text, in any order, the Type cached under each scalar kind is the type of
\* the declaration whose type text names that kind, and getTypeByKind
\* returns it.
C3_EachKindFromItsDeclaration ==
    (cached /\ fixture \in CanonicalFixtures) =>
        /\ \A i \in 1..4 :
              cache[KindNamedBy(fixture[i])] = TypeScriptTypeAt(fixture[i], i)
        /\ (HostCall /\ lastCall.kind \in ScalarKinds) =>
              /\ lastCall.result.tag = "return"
              /\ KindNamedBy(lastCall.result.type.tsType) = lastCall.kind

\* C4: Any, Null and Undefined return their fixed singleton, and the call
\* leaves the flag, the cache and the load count as they were.
Singleton(k) ==
    CASE k = "Any" -> anyType
      [] k = "Null" -> nullType
      [] k = "Undefined" -> undefinedType

C4_SingletonsTouchNothing ==
    (lastCall.repo \in {"host", "stub"} /\ lastCall.kind \in {"Any", "Null", "Undefined"}) =>
        /\ lastCall.result = Return(Singleton(lastCall.kind))
        /\ RepoUnchangedByLastCall

\* C4 witness: a singleton was asked of a host-backed repository that had
\* not loaded yet, and it still has not.
C4_Witness ==
    /\ HostCall /\ lastCall.kind = "Null"
    /\ ~lastCall.cachedBefore /\ ~cached
    /\ lastCall.result = Return(nullType)

\* C9: each visited declaration writes exactly the one kind its type text
\* names, and a declaration of no primitive type writes nothing.
C9_OneKindPerDeclaration ==
    \A i \in DOMAIN written :
        written[i] = IF fixture[i] \in PrimitiveTexts
                     THEN {KindNamedBy(fixture[i])}
                     ELSE {}

\* C10: a call with a scalar kind ensures loading, and then either returns
\* the entry cached under that kind, which is never absent, or throws; when
\* the kind has no entry the call throws, on the first call and on every
\* later one.
C10_AbsentEntryFails ==
    (HostCall /\ lastCall.kind \in ScalarKinds) =>
        /\ cached
        /\ lastCall.result.tag \in {"return", "throw"}
        /\ lastCall.result.tag = "return" =>
              /\ lastCall.result.type = cache[lastCall.kind]
              /\ lastCall.result.type # Absent
        /\ cache[lastCall.kind] = Absent => lastCall.result.tag = "throw"

\* C10 witness: a later call (the flag was already set) for a kind with no
\* cache entry failed on the assertion.
C10_Witness ==
    /\ HostCall /\ lastCall.kind \in ScalarKinds
    /\ lastCall.cachedBefore
    /\ cache[lastCall.kind] = Absent
    /\ lastCall.result = Throw("AssertionError")

(***************************************************************************)
(* Properties of TypeScriptType                                            *)
(***************************************************************************)
\* The flag groups in their precedence order, with the kind each stands for.
PrecedenceOrder ==
    << [kind |-> "Any", bits |-> {"Any"}],
       [kind |-> "Boolean", bits |-> {"Boolean", "BooleanLiteral"}],
       [kind |-> "String", bits |-> {"String", "StringLiteral", "Index"}],
       [kind |-> "Number", bits |-> {"Number", "NumberLiteral", "Enum"}],
       [kind |-> "Symbol", bits |-> {"ESSymbol"}],
       [kind |-> "Undefined", bits |-> {"Undefined"}],
       [kind |-> "Null", bits |-> {"Null"}] >>

GroupsSet(flags) == {i \in DOMAIN PrecedenceOrder : PrecedenceOrder[i].bits \cap flags # {}}

\* C5: kind is the kind of the earliest group of the precedence order with
\* a bit set, and Other exactly when no group has one.
C5_KindPrecedence ==
    kindRead # "none" =>
        LET set == GroupsSet(tsFlags)
        IN /\ set = {} <=> kindRead = "Other"
           /\ set # {} =>
                \E i \in set : /\ \A j \in set : i <= j
                               /\ kindRead = PrecedenceOrder[i].kind

\* C5 witness: kind was read of a type with string, boolean-literal and null
\* bits set together.
C5_Witness ==
    /\ kindRead = "Boolean"
    /\ {"String", "BooleanLiteral", "Null"} \subseteq tsFlags

\* C6: every read of members returns what the first read returned, and so
\* does every read of callSignatures; the host's property list and call
\* signatures are each asked for at most once.
C6_Memoized ==
    /\ lastRead.prop = "members" => lastRead.value = firstMembers
    /\ lastRead.prop = "callSignatures" => lastRead.value = firstCallSignatures
    /\ getPropertiesCalls <= 1
    /\ getCallSignaturesCalls <= 1
    /\ reads["members"] >= 1 => (getPropertiesCalls = 1 /\ membersField = firstMembers)
    /\ reads["callSignatures"] >= 1 =>
          (getCallSignaturesCalls = 1 /\ callSignaturesField = firstCallSignatures)

\* C6 witness: both properties were read more than once of a type with no
\* property and no call signature.
C6_Witness ==
    /\ hostProps = <<>> /\ hostSigs = <<>>
    /\ reads["members"] >= 2 /\ reads["callSignatures"] >= 2
    /\ lastRead.prop = "callSignatures"


(***************************************************************************)
(* Properties of the checker                                               *)
(***************************************************************************)
Checked == diagnostics # Unchecked

IsNotDefined(d) == Len(d.message) = 3 /\ d.message[3] = "' is not defined"
IsPlusMismatch(d) ==
    d.message[1] = "The binary operator '+' cannot be applied to type '"

\* The identifier occurrences of e (at offset start) that table leaves unbound.
RECURSIVE UnboundOccurrences(_, _, _)
UnboundOccurrences(e, start, table) ==
    CASE e.node = "Literal" -> {}
      [] e.node = "Identifier" ->
            IF table[e.text] = Unbound
            THEN {[name |-> e.text, start |-> start, end |-> start + e.len]}
            ELSE {}
      [] e.node = "Binary" ->
            UnboundOccurrences(e.left, start, table)
            \cup UnboundOccurrences(e.right,
                    start + Width(e.left) + OperatorLen(e.op) + 2, table)

\* The spans of the '+' expressions of e (at offset start).
RECURSIVE PlusSpans(_, _)
PlusSpans(e, start) ==
    IF e.node # "Binary" THEN {}
    ELSE PlusSpans(e.left, start)
         \cup PlusSpans(e.right, start + Width(e.left) + OperatorLen(e.op) + 2)
         \cup (IF e.op = "+" THEN {<<start, start + Width(e)>>} ELSE {})

NotDefinedIndices == {i \in DOMAIN diagnostics : IsNotDefined(diagnostics[i])}
PlusIndices == {i \in DOMAIN diagnostics : IsPlusMismatch(diagnostics[i])}

FooPlusBarPlus123 ==
    Binary("+", Binary("+", Identifier("foo"), Identifier("bar")),
           Literal("123", 3, checkerNumber))
OnlyFooNumber == [n \in Names |-> IF n = "foo" THEN checkerNumber ELSE Unbound]
BarNotDefined == Diagnostic(NotDefinedMessage("bar"), 6, 9)

\* C7: every occurrence of an unbound identifier gets exactly one "not
\* defined" diagnostic, on exactly its source range, and there is no other
\* "not defined" diagnostic; the remaining diagnostics are exactly those of
\* the same expression with the unbound names bound to Any, so none is
\* caused by the unresolved operand; 'foo + bar + 123' with foo: number
\* gives the single diagnostic for bar at [6,9].
C7_UnresolvedIsAny ==
    Checked =>
        LET occ == UnboundOccurrences(expression, 0, scope)
            asAny == [n \in Names |-> IF scope[n] = Unbound THEN checkerAny ELSE scope[n]]
            IsOther(d) == ~IsNotDefined(d)
        IN /\ \A o \in occ :
                Cardinality({i \in DOMAIN diagnostics :
                    diagnostics[i] = Diagnostic(NotDefinedMessage(o.name), o.start, o.end)}) = 1
           /\ Cardinality(NotDefinedIndices) = Cardinality(occ)
           /\ SelectSeq(diagnostics, IsOther) = checkExpression(expression, asAny)
           /\ (expression = FooPlusBarPlus123 /\ scope = OnlyFooNumber)
                 => diagnostics = <<BarNotDefined>>

\* C7 witness: 'foo + bar + 123' was checked with only foo: number bound.
C7_Witness ==
    /\ expression = FooPlusBarPlus123 /\ scope = OnlyFooNumber
    /\ diagnostics = <<BarNotDefined>>

Num == Literal("123", 3, checkerNumber)
Str == Literal("\"1\"", 3, checkerString)
True == Literal("true", 4, checkerBoolean)
Null == Literal("null", 4, CheckerType("null", "Null"))

\* C8: for a '+' expression whose operands have types L and R there is no
\* '+' diagnostic on it when both are Number, or either is String, or
\* either is Any, and otherwise exactly one, naming L and R and spanning the
\* whole expression; every '+' diagnostic spans a whole '+' expression, never
\* a single operand; '123 + 123 + 123' and '"1" + 123 + null' give no
\* diagnostic.
C8_PlusRule ==
    Checked =>
        /\ \A i \in PlusIndices :
              <<diagnostics[i].start, diagnostics[i].end>> \in PlusSpans(expression, 0)
        /\ (expression.node = "Binary" /\ expression.op = "+") =>
              LET L == checkNode(expression.left, 0, scope).type
                  R == checkNode(expression.right,
                                 Width(expression.left) + 3, scope).type
                  W == Width(expression)
                  valid == \/ L.kind = "Number" /\ R.kind = "Number"
                           \/ "String" \in {L.kind, R.kind}
                           \/ "Any" \in {L.kind, R.kind}
                  onRoot == {i \in PlusIndices :
                                diagnostics[i].start = 0 /\ diagnostics[i].end = W}
              IN /\ valid => onRoot = {}
                 /\ ~valid =>
                       /\ Cardinality(onRoot) = 1
                       /\ \A i \in onRoot : diagnostics[i].message = PlusMessage(L, R)
        /\ expression = Binary("+", Binary("+", Num, Num), Num) => diagnostics = <<>>
        /\ expression = Binary("+", Binary("+", Str, Num), Null) => diagnostics = <<>>

\* C8 witness: '123 + true' was checked and gave the one '+' diagnostic on
\* the whole expression.
C8_Witness ==
    /\ expression = Binary("+", Num, True)
    /\ diagnostics =
          <<Diagnostic(PlusMessage(checkerNumber, checkerBoolean), 0, 10)>>

=============================================================================
